---- MODULE Spec2Model ----
(***************************************************************************)
(* SEO ROI calculator: the useCalculatorState hook (first definition in    *)
(* src/src/hooks/useCalculatorState.ts), the form-validation hook and the  *)
(* Calculator component that drives them, in its first revision and in the *)
(* two revisions with a loading state; of src/src/utils/calculations.ts the *)
(* recommendation rules, the visualization chart data and the chart-based  *)
(* break-even month.                                                       *)
(*                                                                         *)
(* Numbers.  JavaScript numbers are modelled as exact fixed-point          *)
(* quantities:                                                             *)
(*   - traffic values count 1/TrafficUnit visitors (so 5000.5 visitors is  *)
(*     a value the form's parseFloat can deliver);                         *)
(*   - conversionRate counts 1/RateUnit percent;                           *)
(*   - unrounded money counts 1/MoneyUnit dollars, rounded money cents;    *)
(*   - Math.exp is evaluated by its power series at resolution 1/ExpScale. *)
(* Binary floating-point representation error is not modelled.  NaN and    *)
(* the infinities are distinguished values outside the numeric range.      *)
(***************************************************************************)
EXTENDS Integers, Sequences, FiniteSets, TLC

TrafficUnit == 2
RateUnit == 2
ExpScale == 10000
MoneyUnit == TrafficUnit * RateUnit * 100

NaN == -2000000001
PosInfinity == 2000000001
NegInfinity == -2000000002

isFinite(x) == x # NaN /\ x # PosInfinity /\ x # NegInfinity

\* Math.round(n / d): nearest integer, halves towards +Infinity.
MathRound(n, d) ==
  IF d > 0 THEN (2 * n + d) \div (2 * d)
           ELSE (2 * (0 - n) + (0 - d)) \div (2 * (0 - d))

(***************************************************************************)
(* Arrays                                                                  *)
(***************************************************************************)
\* the array a loop over lo..hi builds by pushing f[i] in its pass i:
\* the pushed values in order, indexed lo..hi
arrayOf(f, lo, hi) ==
  LET values == SubSeq([k \in 1..(hi - lo + 1) |-> f[k + lo - 1]], 1, hi - lo + 1)
  IN  [i \in lo..hi |-> values[i - lo + 1]]

(***************************************************************************)
(* Math.exp                                                                *)
(***************************************************************************)
RECURSIVE TaylorSum(_, _, _, _)
TaylorSum(num, den, j, term) ==
  IF term = 0 THEN 0
  ELSE term + TaylorSum(num, den, j + 1, MathRound(term * num, den * j))

\* ExpScale * e^(num/den) for 0 <= num/den <= 1.
ExpUnit(num, den) == TaylorSum(num, den, 1, ExpScale)

ExpOne == ExpUnit(1, 1)

RECURSIVE ExpDecay(_, _)
ExpDecay(v, k) ==
  IF k = 0 \/ v = 0 THEN v ELSE ExpDecay(MathRound(v * ExpScale, ExpOne), k - 1)

\* ExpScale * Math.exp(-(num/den)) for num >= 0, den > 0.
MathExpNeg(num, den) ==
  ExpDecay(MathRound(ExpScale * ExpScale, ExpUnit(num % den, den)), num \div den)

(***************************************************************************)
(* generateTrafficProjection                                               *)
(***************************************************************************)
Visitors(n) == n * TrafficUnit

\* growth-rate constant in thousandths, before the competition adjustment
domainAuthorityTable(currentTraffic) ==
  IF currentTraffic < Visitors(300) THEN 70
  ELSE IF currentTraffic < Visitors(500) THEN 90
  ELSE IF currentTraffic < Visitors(1000) THEN 120
  ELSE IF currentTraffic < Visitors(5000) THEN 200
  ELSE IF currentTraffic < Visitors(50000) THEN 350
  ELSE IF currentTraffic < Visitors(200000) THEN 450
  ELSE 550

\* variant of domainAuthorityFactor with the two competition multipliers swapped
domainAuthorityFactorSwapped(st) ==
  LET base == domainAuthorityTable(st.currentTraffic)
  IN  IF st.competitionLevel = "high" THEN (base * 12) \div 10
      ELSE IF st.competitionLevel = "low" THEN (base * 8) \div 10
      ELSE base

\* growthRate in thousandths
domainAuthorityFactor(st) ==
  LET base == domainAuthorityTable(st.currentTraffic)
  IN  IF st.competitionLevel = "high" THEN (base * 8) \div 10
      ELSE IF st.competitionLevel = "low" THEN (base * 12) \div 10
      ELSE base

midpoint(st) ==
  IF st.currentTraffic < Visitors(500) THEN MathRound(st.timeframe * 70, 100)
  ELSE IF st.currentTraffic < Visitors(5000) THEN MathRound(st.timeframe * 65, 100)
  ELSE MathRound(st.timeframe * 60, 100)

rampUpPeriod(st) ==
  LET base == IF st.currentTraffic < Visitors(300) THEN 7
              ELSE IF st.currentTraffic < Visitors(500) THEN 5
              ELSE IF st.currentTraffic < Visitors(1000) THEN 4
              ELSE IF st.currentTraffic < Visitors(5000) THEN 3
              ELSE 2
  IN  IF st.competitionLevel = "high" THEN base + 1
      ELSE IF st.competitionLevel = "low" THEN (IF base - 1 > 1 THEN base - 1 ELSE 1)
      ELSE base

\* ExpScale * (1 - Math.exp(-i / rampUpPeriod))
rampUpFactor(i, period) == ExpScale - MathExpNeg(i, period)

\* ExpScale * 1 / (1 + Math.exp(-growthRate * (i - midpoint)))
sCurveFactor(i, mid, growthRate) ==
  IF i >= mid
    THEN MathRound(ExpScale * ExpScale, ExpScale + MathExpNeg(growthRate * (i - mid), 1000))
    ELSE LET e == MathExpNeg(growthRate * (mid - i), 1000)
         IN  MathRound(ExpScale * e, ExpScale + e)

\* Math.round(currentTraffic + trafficIncrease) for month i, as a traffic value
rawMonth(st, i) ==
  LET cur  == st.currentTraffic
      diff == st.targetTraffic - st.currentTraffic
  IN  IF cur < Visitors(300) /\ i <= 3
        THEN Visitors(MathRound(1000 * cur + diff * 5 * i, 1000 * TrafficUnit))
      ELSE IF cur < Visitors(500) /\ i <= 2
        THEN Visitors(MathRound(1000 * cur + diff * 15 * i, 1000 * TrafficUnit))
      ELSE IF cur < Visitors(1000) /\ i <= 1
        THEN Visitors(MathRound(1000 * cur + diff * 25 * i, 1000 * TrafficUnit))
      ELSE LET f == MathRound(sCurveFactor(i, midpoint(st), domainAuthorityFactor(st))
                                * rampUpFactor(i, rampUpPeriod(st)), ExpScale)
           IN  Visitors(MathRound(ExpScale * cur + diff * f, ExpScale * TrafficUnit))

tempProjectedData(st) ==
  arrayOf([i \in 0..st.timeframe |-> rawMonth(st, i)], 0, st.timeframe)

\* Math.round(currentTraffic + originalIncrease * correctionFactor)
adjustedMonth(st, temp, i) ==
  LET cur   == st.currentTraffic
      gap   == st.targetTraffic - cur
      denom == temp[st.timeframe] - cur
      originalIncrease == temp[i] - cur
  IN  IF denom = 0
        THEN (IF originalIncrease = 0 THEN NaN
              ELSE IF originalIncrease > 0 THEN PosInfinity ELSE NegInfinity)
        ELSE Visitors(MathRound(cur * denom + originalIncrease * gap, denom * TrafficUnit))

\* the projection as src/src/utils/calculations.ts returns it (no final pinning)
normalizedProjection(st) ==
  LET temp == tempProjectedData(st)
      N    == st.timeframe
  IN  IF temp[N] # st.targetTraffic /\ st.targetTraffic > st.currentTraffic
        THEN arrayOf([i \in 0..N |-> IF i = 0 THEN st.currentTraffic
                                     ELSE IF i = N THEN st.targetTraffic
                                     ELSE adjustedMonth(st, temp, i)], 0, N)
        ELSE temp

ensureFinalMonthMatchesTarget(projectedTrafficData, targetTraffic, timeframe) ==
  IF timeframe \notin DOMAIN projectedTrafficData THEN projectedTrafficData
  ELSE IF projectedTrafficData[timeframe] = targetTraffic THEN projectedTrafficData
  ELSE [projectedTrafficData EXCEPT ![timeframe] = targetTraffic]

generateTrafficProjection(st) ==
  ensureFinalMonthMatchesTarget(normalizedProjection(st), st.targetTraffic, st.timeframe)

(***************************************************************************)
(* Arithmetic on numbers that may be NaN or infinite                       *)
(***************************************************************************)
Neg(a) ==
  IF a = NaN THEN NaN
  ELSE IF a = PosInfinity THEN NegInfinity
  ELSE IF a = NegInfinity THEN PosInfinity
  ELSE 0 - a

Add(a, b) ==
  IF a = NaN \/ b = NaN THEN NaN
  ELSE IF ~isFinite(a) THEN (IF ~isFinite(b) /\ b # a THEN NaN ELSE a)
  ELSE IF ~isFinite(b) THEN b
  ELSE a + b

Sub(a, b) == Add(a, Neg(b))

Mul(a, b) ==
  IF a = NaN \/ b = NaN THEN NaN
  ELSE IF ~isFinite(a) \/ ~isFinite(b)
    THEN (IF a = 0 \/ b = 0 THEN NaN
          ELSE IF (a > 0) = (b > 0) THEN PosInfinity ELSE NegInfinity)
  ELSE a * b

\* a >= b and a < b as JavaScript evaluates them (false when either is NaN)
Geq(a, b) == a # NaN /\ b # NaN /\ a >= b
Less(a, b) == a # NaN /\ b # NaN /\ a < b

RECURSIVE Pow10(_)
Pow10(k) == IF k = 0 THEN 1 ELSE 10 * Pow10(k - 1)

\* Math.round(n * 10^k / d), digit by digit
RECURSIVE RoundDecimalsPos(_, _, _)
RoundDecimalsPos(n, d, k) ==
  IF k = 0 THEN MathRound(n, d)
  ELSE (n \div d) * Pow10(k) + RoundDecimalsPos((n % d) * 10, d, k - 1)

RoundDecimals(n, d, k) ==
  IF d > 0 THEN RoundDecimalsPos(n, d, k) ELSE RoundDecimalsPos(0 - n, 0 - d, k)

RECURSIVE GCD(_, _)
GCD(a, b) == IF b = 0 THEN a ELSE GCD(b, a % b)

(***************************************************************************)
(* Money                                                                   *)
(***************************************************************************)
\* variant of monthlyRevenue that leaves out the order value
monthlyRevenueUnpriced(st, traffic) == Mul(traffic, st.conversionRate)

\* (traffic * conversionRate / 100) * averageOrderValue, in 1/MoneyUnit dollars
monthlyRevenue(st, traffic) == Mul(Mul(traffic, st.conversionRate), st.averageOrderValue)

\* monthlySEOCost in 1/MoneyUnit dollars
monthlyCost(st) == st.monthlySEOCost * MoneyUnit

\* additionalMonthlyRevenue of months 1..timeframe
additionalMonthlyRevenue(st, data) ==
  arrayOf([i \in 1..st.timeframe |->
             Sub(monthlyRevenue(st, data[i]), monthlyRevenue(st, st.currentTraffic))],
          1, st.timeframe)

\* f[lo] + ... + f[hi]: what a loop over lo..hi that does total += f[i] adds up
\* (numbers are exact here, so the grouping of the additions does not matter)
RECURSIVE SumOver(_, _, _)
SumOver(f, lo, hi) ==
  IF lo > hi THEN 0
  ELSE IF lo = hi THEN f[lo]
  ELSE Add(SumOver(f, lo, (lo + hi) \div 2), SumOver(f, (lo + hi) \div 2 + 1, hi))

(***************************************************************************)
(* calculateBreakEvenMonth                                                 *)
(***************************************************************************)
\* The for loop with cumulativeCost starting at cumulativeCost0.  revenue[i] and
\* cost[i] are cumulativeAdditionalRevenue and cumulativeCost after the additions
\* of month i; the loop stops at the first month with revenue[i] >= cost[i].
\* The unrounded month is whole + num/den; costs is cumulativeCost after each
\* month the loop visited.
breakEvenLoop(st, data, cumulativeCost0) ==
  LET additional == additionalMonthlyRevenue(st, data)
      revenue == arrayOf([i \in 1..st.timeframe |-> SumOver(additional, 1, i)],
                         1, st.timeframe)
      cost == arrayOf([i \in 1..st.timeframe |->
                         cumulativeCost0
                           + SumOver([j \in 1..st.timeframe |-> monthlyCost(st)], 1, i)],
                      1, st.timeframe)
      reached == {i \in 1..st.timeframe : Geq(revenue[i], cost[i])}
  IN  IF reached = {}
        THEN [breakEvenFound |-> FALSE, whole |-> st.timeframe, num |-> 0, den |-> 1,
              costs |-> cost]
        ELSE
          LET i == CHOOSE m \in reached : \A n \in reached : m <= n
              previousCumulativeRevenue == IF i = 1 THEN 0 ELSE revenue[i - 1]
              visited == [j \in 1..i |-> cost[j]]
          IN  IF i > 1 /\ Less(previousCumulativeRevenue, cost[i])
                THEN LET previousMonthDeficit == Sub(cost[i], previousCumulativeRevenue)
                         currentMonthSurplus == Sub(revenue[i], cost[i])
                         totalChange == Add(previousMonthDeficit, currentMonthSurplus)
                     IN  IF isFinite(totalChange) /\ isFinite(previousMonthDeficit)
                           THEN [breakEvenFound |-> TRUE, whole |-> i - 1,
                                 num |-> previousMonthDeficit, den |-> totalChange,
                                 costs |-> visited]
                           ELSE [breakEvenFound |-> TRUE, whole |-> i - 1,
                                 num |-> 0, den |-> 1, costs |-> visited]
                ELSE [breakEvenFound |-> TRUE, whole |-> i, num |-> 0, den |-> 1,
                      costs |-> visited]

\* variant of breakEvenScan whose running cost starts at one month's cost
breakEvenScanCostAhead(st, projectedTrafficData) ==
  breakEvenLoop(st, projectedTrafficData, monthlyCost(st))

\* let cumulativeCost = 0, then the loop
breakEvenScan(st, projectedTrafficData) ==
  breakEvenLoop(st, projectedTrafficData, 0)

\* variant of roundToTenths that counts the crossover month as a whole month
roundToTenthsPastCrossover(scan) ==
  10 * (scan.whole + 1) + MathRound(10 * scan.num, scan.den)

\* Math.round(breakEvenMonth * 10), i.e. the returned month in tenths
roundToTenths(scan) == 10 * scan.whole + MathRound(10 * scan.num, scan.den)

calculateBreakEvenMonth(st, projectedTrafficData) ==
  roundToTenths(breakEvenScan(st, projectedTrafficData))

(***************************************************************************)
(* Chart series                                                            *)
(***************************************************************************)
\* cumulativeRevenueIncreaseData of generateROIComparisonChart, months 1..timeframe
cumulativeRevenueSeries(st, data) ==
  LET additional == additionalMonthlyRevenue(st, data)
  IN  arrayOf([i \in 1..st.timeframe |-> SumOver(additional, 1, i)], 1, st.timeframe)

generateROIComparisonChart(st, data) ==
  [cumulativeCost |-> [i \in 1..st.timeframe |-> monthlyCost(st) * i],
   cumulativeRevenueIncrease |-> cumulativeRevenueSeries(st, data)]

generateTrafficGrowthChart(st, data) ==
  [current |-> [i \in 0..st.timeframe |-> st.currentTraffic], projected |-> data]

generateRevenueGrowthChart(st, data) ==
  [current   |-> [i \in 0..st.timeframe |-> monthlyRevenue(st, st.currentTraffic)],
   projected |-> [i \in 0..st.timeframe |-> monthlyRevenue(st, data[i])]]

(***************************************************************************)
(* verifyBreakEvenConsistency (src/src/utils/calculatorTests.ts)           *)
(***************************************************************************)
\* chartBreakEvenMonth after the loop, as whole + num/den.  The two series
\* are the datasets the function finds by their labels; array index i of the
\* code is month i + 1 here.
chartBreakEvenMonth(st, chartData) ==
  LET cumulativeCostData == chartData.cumulativeCost
      cumulativeRevenueData == chartData.cumulativeRevenueIncrease
      crossed == {m \in DOMAIN cumulativeCostData :
                    Geq(cumulativeRevenueData[m], cumulativeCostData[m])}
  IN  IF crossed = {} THEN [whole |-> st.timeframe, num |-> 0, den |-> 1]
      ELSE
        LET m == CHOOSE x \in crossed : \A y \in crossed : x <= y
        IN  IF m = 1 THEN [whole |-> 1, num |-> 0, den |-> 1]
            ELSE
              LET prevMonthCostDiff ==
                    Sub(cumulativeCostData[m - 1], cumulativeRevenueData[m - 1])
                  thisMonthRevenueDiff ==
                    Sub(cumulativeRevenueData[m], cumulativeCostData[m])
                  totalDiff == Add(prevMonthCostDiff, thisMonthRevenueDiff)
              IN  IF totalDiff # NaN /\ totalDiff > 0
                    THEN IF isFinite(totalDiff)
                           THEN [whole |-> m - 1, num |-> prevMonthCostDiff,
                                 den |-> totalDiff]
                           ELSE [whole |-> m - 1, num |-> 0, den |-> 1]
                    ELSE [whole |-> m, num |-> 0, den |-> 1]

\* Math.abs(breakEvenMonth - chartBreakEvenMonth) <= 0.5, for breakEvenMonth
\* in tenths and chartMonth = whole + num/den with 0 <= num/den <= 1
withinHalfMonth(breakEvenMonth, chartMonth) ==
  LET k == breakEvenMonth - 10 * chartMonth.whole
  IN  /\ k >= 0 - 5
      /\ k <= 15
      /\ (k - 5) * chartMonth.den <= 10 * chartMonth.num
      /\ 10 * chartMonth.num <= (k + 5) * chartMonth.den

verifyBreakEvenConsistency(st, breakEvenMonth, chartData) ==
  withinHalfMonth(breakEvenMonth, chartBreakEvenMonth(st, chartData))

(***************************************************************************)
(* useFormValidation                                                       *)
(***************************************************************************)
NoErrors == [k \in {} |-> ""]

\* variant of clearErrors that leaves the mapping as it is
clearErrorsKeeping(errs) == errs

clearErrors(errs) == NoErrors

\* variant of updateValidationErrors that keeps the previous mapping only
updateValidationErrorsIgnored(prevErrors, newErrors) == prevErrors

\* { ...prevErrors, ...newErrors }
updateValidationErrors(prevErrors, newErrors) == newErrors @@ prevErrors

\* value > limit, for a value counted in 1/unit
exceeds(value, limit, unit) ==
  value \div unit > limit \/ (value \div unit = limit /\ value % unit > 0)

\* variant of fieldError that never records the message
fieldErrorDropped(key, cond, msg) == NoErrors

fieldError(key, cond, msg) == IF cond THEN key :> msg ELSE NoErrors

\* newErrors of validateCalculatorInputs
validateCalculatorInputs(st) ==
  LET total == st.contentInvestment + st.linkBuildingInvestment + st.technicalSEOInvestment
      totalMsg == "Investment allocations total " \o ToString(total) \o "%, but must equal 100%"
      currentTraffic ==
        IF st.currentTraffic = 0 THEN "currentTraffic" :> "Current traffic cannot be zero"
        ELSE IF st.currentTraffic < 0 THEN "currentTraffic" :> "Current traffic cannot be negative"
        ELSE fieldError("currentTraffic", exceeds(st.currentTraffic, 10000000, TrafficUnit),
                        "Current traffic value is unrealistically high")
      targetTraffic ==
        IF st.targetTraffic = 0 THEN "targetTraffic" :> "Target traffic cannot be zero"
        ELSE IF st.targetTraffic < 0 THEN "targetTraffic" :> "Target traffic cannot be negative"
        ELSE IF st.targetTraffic <= st.currentTraffic
          THEN "targetTraffic" :> "Target traffic must be greater than current traffic"
        ELSE fieldError("targetTraffic", exceeds(st.targetTraffic, 20000000, TrafficUnit),
                        "Target traffic value is unrealistically high")
      conversionRate ==
        IF st.conversionRate = 0 THEN "conversionRate" :> "Conversion rate cannot be zero"
        ELSE IF st.conversionRate < 0 THEN "conversionRate" :> "Conversion rate cannot be negative"
        ELSE fieldError("conversionRate", exceeds(st.conversionRate, 100, RateUnit),
                        "Conversion rate cannot exceed 100%")
      averageOrderValue ==
        IF st.averageOrderValue = 0
          THEN "averageOrderValue" :> "Average order value cannot be zero"
        ELSE IF st.averageOrderValue < 0
          THEN "averageOrderValue" :> "Average order value cannot be negative"
        ELSE fieldError("averageOrderValue", st.averageOrderValue > 1000000,
                        "Average order value is unrealistically high")
      monthlySEOCost ==
        IF st.monthlySEOCost = 0 THEN "monthlySEOCost" :> "Monthly SEO cost cannot be zero"
        ELSE IF st.monthlySEOCost < 0
          THEN "monthlySEOCost" :> "Monthly SEO cost cannot be negative"
        ELSE fieldError("monthlySEOCost", st.monthlySEOCost > 1000000,
                        "Monthly SEO cost is unrealistically high")
      keywordDifficulty ==
        IF st.keywordDifficulty < 1
          THEN "keywordDifficulty" :> "Keyword difficulty must be at least 1"
        ELSE fieldError("keywordDifficulty", st.keywordDifficulty > 100,
                        "Keyword difficulty cannot exceed 100")
      timeframe ==
        IF st.timeframe = 0 THEN "timeframe" :> "Timeframe cannot be zero"
        ELSE IF st.timeframe < 0 THEN "timeframe" :> "Timeframe cannot be negative"
        ELSE fieldError("timeframe", st.timeframe > 60, "Timeframe cannot exceed 60 months")
      contentInvestment ==
        IF st.contentInvestment < 0
          THEN "contentInvestment" :> "Content investment cannot be negative"
        ELSE fieldError("contentInvestment", total # 100, totalMsg)
      linkBuildingInvestment ==
        IF st.linkBuildingInvestment < 0
          THEN "linkBuildingInvestment" :> "Link building investment cannot be negative"
        ELSE fieldError("linkBuildingInvestment", total # 100, totalMsg)
      technicalSEOInvestment ==
        IF st.technicalSEOInvestment < 0
          THEN "technicalSEOInvestment" :> "Technical SEO investment cannot be negative"
        ELSE fieldError("technicalSEOInvestment", total # 100, totalMsg)
  IN  currentTraffic @@ targetTraffic @@ conversionRate @@ averageOrderValue
        @@ monthlySEOCost @@ keywordDifficulty @@ timeframe
        @@ contentInvestment @@ linkBuildingInvestment @@ technicalSEOInvestment

(***************************************************************************)
(* useCalculatorState                                                      *)
(***************************************************************************)
initialState ==
  [currentTraffic |-> Visitors(1000), targetTraffic |-> Visitors(2000),
   conversionRate |-> 2 * RateUnit, averageOrderValue |-> 100, monthlySEOCost |-> 1000,
   keywordDifficulty |-> 40, competitionLevel |-> "medium", industryType |-> "ecommerce",
   contentInvestment |-> 30, linkBuildingInvestment |-> 40, technicalSEOInvestment |-> 30,
   timeframe |-> 12]

\* The combined-revenue test against Number.MAX_SAFE_INTEGER cannot trigger
\* for values inside the numeric range of this model and is left out.
validatePrecisionLimits(st) ==
  IF exceeds(st.currentTraffic, 1000000000, TrafficUnit)
    THEN "Current traffic exceeds safe calculation limit"
  ELSE IF exceeds(st.targetTraffic, 1000000000, TrafficUnit)
    THEN "Target traffic exceeds safe calculation limit"
  ELSE IF st.averageOrderValue > 100000000
    THEN "Average order value exceeds safe calculation limit"
  ELSE IF st.monthlySEOCost > 10000000
    THEN "Monthly SEO cost exceeds safe calculation limit"
  ELSE ""

null == [null |-> TRUE]
NoProjection == <<>>

isResult(r) == "roi" \in DOMAIN r

\* safePercentage(additionalTraffic, conversionRate), in hundredths
safePercentage(additionalTraffic, conversionRate) ==
  IF ~isFinite(additionalTraffic) THEN 0
  ELSE MathRound(additionalTraffic * conversionRate, TrafficUnit * RateUnit)

\* totalMonthlyIncreases after the loop over months 1..timeframe, in cents
totalMonthlyIncreases(st, data) ==
  SumOver([i \in 1..st.timeframe |->
             safePercentage(Sub(data[i], st.currentTraffic), st.conversionRate)
               * st.averageOrderValue],
          1, st.timeframe)

breakEvenText(st, breakEvenMonth) ==
  IF breakEvenMonth < 10 * st.timeframe THEN "reach" ELSE "longer"

\* variant of failure that returns null without recording the message
failureUnrecorded(errs, key, msg, data) ==
  [result |-> null, errors |-> errs, projection |-> data]

\* A failed attempt: no result, one message added to the (cleared) errors.
failure(errs, key, msg, data) ==
  [result |-> null, errors |-> updateValidationErrors(errs, key :> msg), projection |-> data]

\* the try block of calculateResults.  The throw on isNaN(breakEvenMonth) is
\* left out: the loop only interpolates from a finite positive deficit and a
\* surplus >= 0, so calculateBreakEvenMonth never returns NaN.
tryCalculate(st, errs) ==
  LET data == generateTrafficProjection(st)
      monthlyConversions == MathRound(st.currentTraffic * st.conversionRate,
                                      TrafficUnit * RateUnit)
      initialRevenue == monthlyConversions * st.averageOrderValue
      projectedMonthlyConversions == MathRound(st.targetTraffic * st.conversionRate,
                                               TrafficUnit * RateUnit)
      projectedRevenue == projectedMonthlyConversions * st.averageOrderValue
      revenueIncrease == projectedRevenue - initialRevenue
      totalSEOCost == st.monthlySEOCost * st.timeframe * 100
      totalIncrease == revenueIncrease * st.timeframe
      totalProfit == totalIncrease - totalSEOCost
      roi == RoundDecimals(totalProfit, totalSEOCost, 4)
      scan == breakEvenScan(st, data)
      breakEvenMonth == roundToTenths(scan)
  IN  IF totalSEOCost = 0
        THEN failure(errs, "calculationError",
                     "Calculation failed: Cannot calculate ROI with zero SEO cost", data)
      ELSE IF roi > 10000 * 100
        THEN failure(errs, "calculationError",
                     "Calculation failed: Calculated ROI is unrealistically high", data)
      ELSE IF projectedRevenue > 100 * initialRevenue /\ initialRevenue > 0
        THEN failure(errs, "calculationError",
                     "Calculation failed: Projected revenue growth is unrealistically high",
                     data)
      ELSE IF breakEvenMonth < 10 /\ breakEvenMonth # 0
        THEN failure(errs, "calculationError",
                     "Calculation failed: Break-even calculation produced an invalid result",
                     data)
      ELSE IF data[st.timeframe] # st.targetTraffic
        THEN failure(errs, "calculationError",
                     "Calculation failed: Traffic projection model failed to match target",
                     data)
      ELSE [result |->
              [initialRevenue |-> initialRevenue,
               projectedRevenue |-> projectedRevenue,
               revenueIncrease |-> revenueIncrease,
               averageMonthlyIncrease |->
                 MathRound(totalMonthlyIncreases(st, data), st.timeframe),
               totalSEOCost |-> totalSEOCost,
               roi |-> roi,
               breakEvenMonth |-> breakEvenMonth,
               trafficGrowthChart |-> generateTrafficGrowthChart(st, data),
               revenueGrowthChart |-> generateRevenueGrowthChart(st, data),
               roiComparisonChart |-> generateROIComparisonChart(st, data),
               breakEvenText |-> breakEvenText(st, breakEvenMonth),
               scan |-> scan],
            errors |-> errs,
            projection |-> data]

\* calculateResults: the returned value, the error mapping it leaves and the
\* traffic projection it computed on the way (NoProjection if it computed none)
calculateResults(st, errors0) ==
  LET errs == clearErrors(errors0)
  IN  IF st.currentTraffic = 0 \/ st.targetTraffic = 0 \/ st.timeframe = 0
           \/ st.conversionRate = 0 \/ st.averageOrderValue = 0
        THEN failure(errs, "calculationError", "Please fill in all required fields",
                     NoProjection)
      ELSE IF st.targetTraffic <= st.currentTraffic
        THEN failure(errs, "targetTraffic",
                     "Target traffic must be greater than current traffic", NoProjection)
      ELSE IF st.timeframe < 1 \/ st.timeframe > 60
        THEN failure(errs, "timeframe", "Timeframe must be between 1 and 60 months",
                     NoProjection)
      ELSE IF validatePrecisionLimits(st) # ""
        THEN failure(errs, "calculationError", validatePrecisionLimits(st), NoProjection)
      ELSE tryCalculate(st, errs)

(***************************************************************************)
(* The Calculator component (src/src/components/Calculator/index.tsx)      *)
(* around the hook                                                         *)
(***************************************************************************)
VARIABLES
  state,     \* useState<CalculatorState> of useCalculatorState
  errors,    \* useState<ValidationErrors> of useFormValidation
  results,   \* useState<CalculationResults | null> of Calculator
  call,      \* the latest engine call: its input, what it returned and left behind
  nUpdates,  \* number of updateState calls so far
  isCalculating,  \* useState(false) of the Calculator revision with a loading state
  timer,     \* the result the pending setTimeout callback of that revision will show
  calculatorMode,  \* useState<'basic' | 'advanced'>('basic') of Calculator
  lastReset  \* history: the latest Reset that no shown calculation has followed

vars ==
  <<state, errors, results, call, nUpdates, isCalculating, timer, calculatorMode, lastReset>>

MaxUpdates == 2

\* Partial<CalculatorState> values the form handlers pass to updateState
Updates ==
  {[currentTraffic |-> v] : v \in {0, Visitors(10), Visitors(500), Visitors(2000)}}
    \cup {[targetTraffic |-> v] : v \in {0, Visitors(1000), Visitors(1001), Visitors(3000)}}
    \cup {[conversionRate |-> v] : v \in {0, 0 - 2 * RateUnit, 101 * RateUnit}}
    \cup {[averageOrderValue |-> v] : v \in {0, 50}}
    \cup {[monthlySEOCost |-> v] : v \in {0, 0 - 1000, 2000}}
    \cup {[timeframe |-> v] : v \in {0, 6, 61}}
    \cup {[competitionLevel |-> v] : v \in {"high"}}
    \cup {[keywordDifficulty |-> v] : v \in {0}}
    \cup {[contentInvestment |-> v] : v \in {50}}

NoCall ==
  [op |-> "none", input |-> initialState, errorsBefore |-> NoErrors,
   result |-> null, errors |-> NoErrors, projection |-> NoProjection]

Init ==
  /\ state = initialState
  /\ errors = NoErrors
  /\ results = null
  /\ call = NoCall
  /\ nUpdates = 0
  /\ isCalculating = FALSE
  /\ timer = null
  /\ calculatorMode = "basic"
  /\ lastReset = null

\* lastReset once another handler has run after the Reset
resetFollowed ==
  IF lastReset = null THEN null ELSE [lastReset EXCEPT !.latest = FALSE]

\* lastReset right after a click on Reset: the mode at the click; no
\* calculation to be shown has started since
resetClicked == [calculatorMode |-> calculatorMode, latest |-> TRUE, started |-> FALSE]

\* handleModeToggle(mode): a click on one of the two tabs
handleModeToggle(mode) ==
  /\ calculatorMode' = mode
  /\ lastReset' = resetFollowed
  /\ UNCHANGED <<state, errors, results, call, nUpdates, isCalculating, timer>>

updateState(updates) ==
  /\ nUpdates < MaxUpdates
  /\ state' = updates @@ state
  /\ nUpdates' = nUpdates + 1
  /\ lastReset' = resetFollowed
  /\ UNCHANGED <<errors, results, call, isCalculating, timer, calculatorMode>>

\* variant of resetState that keeps every field the user has changed
resetStateMerging ==
  /\ state' = state @@ initialState
  /\ errors' = clearErrors(errors)

resetState ==
  /\ state' = initialState
  /\ errors' = clearErrors(errors)

handleReset ==
  /\ resetState
  /\ results' = null
  /\ lastReset' = resetClicked
  /\ UNCHANGED <<call, nUpdates, isCalculating, timer, calculatorMode>>

handleCalculate ==
  \E outcome \in {calculateResults(state, errors)} :
      /\ errors' = outcome.errors
      /\ call' = [op |-> "calculateResults", input |-> state, errorsBefore |-> errors,
                  result |-> outcome.result, errors |-> outcome.errors,
                  projection |-> outcome.projection]
      /\ results' = IF outcome.result # null THEN outcome.result ELSE results
      /\ lastReset' = IF outcome.result # null THEN null ELSE resetFollowed
      /\ UNCHANGED <<state, nUpdates, isCalculating, timer, calculatorMode>>

Next ==
  \/ \E updates \in Updates : updateState(updates)
  \/ \E mode \in {"basic", "advanced"} : handleModeToggle(mode)
  \/ handleReset
  \/ handleCalculate

Spec == Init /\ [][Next]_vars

(***************************************************************************)
(* The Calculator revision with a loading state (src/unnamed/part_014,     *)
(* second component): Calculate is disabled while a calculation is shown   *)
(* as running or any error is recorded, and a result appears after a delay *)
(***************************************************************************)
\* disabled={isCalculating || Object.keys(errors).length > 0} of the button
calculateDisabled == isCalculating \/ DOMAIN errors # {}

\* a click on Calculate ROI: calculateResults at once, the result shown by a
\* callback scheduled 1200 ms later
handleCalculateDelayed ==
  /\ ~calculateDisabled
  /\ \E outcome \in {calculateResults(state, errors)} :
        /\ errors' = outcome.errors
        /\ call' = [op |-> "calculateResults", input |-> state, errorsBefore |-> errors,
                    result |-> outcome.result, errors |-> outcome.errors,
                    projection |-> outcome.projection]
        /\ isCalculating' = (outcome.result # null)
        /\ timer' = outcome.result
        /\ lastReset' = IF lastReset = null THEN null
                        ELSE [lastReset EXCEPT
                                !.latest = FALSE,
                                !.started = lastReset.started \/ outcome.result # null]
  /\ UNCHANGED <<state, results, nUpdates, calculatorMode>>

\* the setTimeout callback: setIsCalculating(false), setResults(validationResult)
calculationShown ==
  /\ timer # null
  /\ isCalculating' = FALSE
  /\ results' = timer
  /\ timer' = null
  /\ lastReset' = IF lastReset # null /\ lastReset.started THEN null ELSE resetFollowed
  /\ UNCHANGED <<state, errors, call, nUpdates, calculatorMode>>

\* variant of handleResetDelayed whose button is never disabled
handleResetAlwaysEnabled ==
  /\ resetState
  /\ results' = null
  /\ lastReset' = resetClicked
  /\ UNCHANGED <<call, nUpdates, isCalculating, timer, calculatorMode>>

\* a click on Reset, disabled={isCalculating}
handleResetDelayed ==
  /\ ~isCalculating
  /\ resetState
  /\ results' = null
  /\ lastReset' = resetClicked
  /\ UNCHANGED <<call, nUpdates, isCalculating, timer, calculatorMode>>

\* {results && !isCalculating && (...)}: the results section is rendered
resultsShown == results # null /\ ~isCalculating

\* the timeframe prop of <Results results={results} timeframe={state.timeframe} />
timeframeShown == state.timeframe

NextDelayed ==
  \/ \E updates \in Updates : updateState(updates)
  \/ \E mode \in {"basic", "advanced"} : handleModeToggle(mode)
  \/ handleResetDelayed
  \/ handleCalculateDelayed
  \/ calculationShown

SpecDelayed == Init /\ [][NextDelayed]_vars

(***************************************************************************)
(* The Calculator revision of src/src/components/Calculator/               *)
(* CalculatorTabs.tsx: the click only starts the delay, calculateResults   *)
(* runs in the callback                                                    *)
(***************************************************************************)
\* a click on Calculate ROI: setIsCalculating(true) and a callback scheduled
\* 1200 ms later.  The callback calls the calculateResults of the render in
\* which the click happened, which reads the state of that render.
handleCalculateTabs ==
  /\ ~calculateDisabled
  /\ isCalculating' = TRUE
  /\ timer' = [input |-> state]
  /\ lastReset' = IF lastReset = null THEN null
                  ELSE [lastReset EXCEPT !.latest = FALSE, !.started = TRUE]
  /\ UNCHANGED <<state, errors, results, call, nUpdates, calculatorMode>>

\* the setTimeout callback: calculateResults(), setIsCalculating(false) and,
\* if there is a result, setResults(calculationResults)
calculationDone ==
  /\ timer # null
  /\ \E outcome \in {calculateResults(timer.input, errors)} :
        /\ errors' = outcome.errors
        /\ call' = [op |-> "calculateResults", input |-> timer.input,
                    errorsBefore |-> errors, result |-> outcome.result,
                    errors |-> outcome.errors, projection |-> outcome.projection]
        /\ results' = IF outcome.result # null THEN outcome.result ELSE results
        /\ lastReset' = IF lastReset # null /\ lastReset.started /\ outcome.result # null
                          THEN null
                        ELSE IF lastReset = null THEN null
                        ELSE [lastReset EXCEPT !.latest = FALSE, !.started = FALSE]
  /\ isCalculating' = FALSE
  /\ timer' = null
  /\ UNCHANGED <<state, nUpdates, calculatorMode>>

NextTabs ==
  \/ \E updates \in Updates : updateState(updates)
  \/ \E mode \in {"basic", "advanced"} : handleModeToggle(mode)
  \/ handleResetDelayed
  \/ handleCalculateTabs
  \/ calculationDone

SpecTabs == Init /\ [][NextTabs]_vars

(***************************************************************************)
(* generateRecommendations of src/src/utils/calculations.ts.  monthlyROI is *)
(* counted in tenths of a percent, breakEvenPoint in tenths of a month,     *)
(* conversionRate in 1/RateUnit percent; a block is named by its title.     *)
(***************************************************************************)
\* variant of roiRecommendation that counts an ROI of exactly 50 as improvable
roiRecommendationUpTo50(monthlyROI) ==
  IF Less(monthlyROI, 0) THEN <<"Your current SEO ROI is negative.">>
  ELSE IF ~Less(500, monthlyROI)
    THEN <<"Your SEO ROI is positive but could be improved.">>
  ELSE <<"Your SEO ROI is strong!">>

\* the blocks pushed by the if / else if / else on monthlyROI
roiRecommendation(monthlyROI) ==
  IF Less(monthlyROI, 0) THEN <<"Your current SEO ROI is negative.">>
  ELSE IF Less(monthlyROI, 500)
    THEN <<"Your SEO ROI is positive but could be improved.">>
  ELSE <<"Your SEO ROI is strong!">>

\* the blocks pushed under if (isFinite(breakEvenPoint))
breakEvenRecommendation(breakEvenPoint) ==
  IF isFinite(breakEvenPoint)
    THEN IF breakEvenPoint > 120
           THEN <<"Your break-even point is longer than 12 months.">>
         ELSE IF breakEvenPoint > 60
           THEN <<"Your break-even point is between 6-12 months,">>
         ELSE <<"Your break-even point is less than 6 months,">>
    ELSE <<>>

generateRecommendations(monthlyROI, breakEvenPoint, conversionRate, ctr, keywords) ==
  roiRecommendation(monthlyROI)
    \o breakEvenRecommendation(breakEvenPoint)
    \o (IF Less(conversionRate, RateUnit)
          THEN <<"Your conversion rate is below average.">> ELSE <<>>)
    \o (IF Less(ctr, 10)
          THEN <<"Your click-through rate is below typical first-page results.">>
          ELSE <<>>)
    \o (IF Less(keywords, 5)
          THEN <<"You're targeting relatively few keywords.">> ELSE <<>>)

\* monthlyROI values: negative, zero, around 50, large, infinite
RoiValues == {0 - 1000, 0 - 1, 0, 1, 499, 500, 501, 20000, PosInfinity, NegInfinity}

\* breakEvenPoint values: around 6 and 12, small, large, Infinity (the value
\* of calculateROI when break-even is not reached), NaN and the -1 of the
\* chart-based calculateBreakEvenMonth
BreakEvenPoints ==
  {0 - 10, 0, 10, 59, 60, 61, 105, 119, 120, 121, 361, PosInfinity, NaN}

RecommendationInputs ==
  [monthlyROI : RoiValues, breakEvenPoint : BreakEvenPoints,
   conversionRate : {RateUnit \div 2, RateUnit, 2 * RateUnit},
   clickThroughRate : {5, 10}, keywords : {3, 5}]

InitRecommend ==
  /\ state \in RecommendationInputs
  /\ errors = NoErrors
  /\ results = null
  /\ call = NoCall
  /\ nUpdates = 0
  /\ isCalculating = FALSE
  /\ timer = null
  /\ calculatorMode = "basic"
  /\ lastReset = null

\* a call generateRecommendations(monthlyROI, breakEvenPoint, conversionRate,
\* ctr, keywords)
recommend ==
  /\ call.op = "none"
  /\ call' = [op |-> "generateRecommendations", input |-> state,
              errorsBefore |-> errors, result |-> null, errors |-> errors,
              projection |-> NoProjection,
              recommendations |->
                generateRecommendations(state.monthlyROI, state.breakEvenPoint,
                                        state.conversionRate, state.clickThroughRate,
                                        state.keywords)]
  /\ UNCHANGED <<state, errors, results, nUpdates, isCalculating, timer, calculatorMode, lastReset>>

NextRecommend == recommend

SpecRecommend == InitRecommend /\ [][NextRecommend]_vars

(***************************************************************************)
(* generateChartData and the chart-based calculateBreakEvenMonth of         *)
(* src/src/utils/calculations.ts, as the visualization test page calls them *)
(***************************************************************************)
\* ExpScale * 1 / (1 + Math.exp(-10 * (month / projectLength - 0.5)))
growthRatio(month, projectLength) ==
  IF 2 * month >= projectLength
    THEN MathRound(ExpScale * ExpScale,
                   ExpScale + MathExpNeg(10 * (2 * month - projectLength), 2 * projectLength))
    ELSE LET e == MathExpNeg(10 * (projectLength - 2 * month), 2 * projectLength)
         IN  MathRound(ExpScale * e, ExpScale + e)

\* The data points of months 0..projectLength: cumulativeCost and
\* cumulativeAdditionalRevenue in 1/MoneyUnit dollars.  The additional
\* traffic of a month is kept at the resolution of traffic values.
generateChartData(st) ==
  LET trafficDifference == st.targetTraffic - st.currentTraffic
      monthlyAdditionalRevenue ==
        arrayOf([month \in 1..st.projectLength |->
                   MathRound(trafficDifference * growthRatio(month, st.projectLength),
                             ExpScale)
                     * st.conversionRate * st.averageOrderValue],
                1, st.projectLength)
  IN  arrayOf([month \in 0..st.projectLength |->
                 [month |-> month,
                  cumulativeCost |-> st.monthlyCost * MoneyUnit * month,
                  cumulativeAdditionalRevenue |->
                    SumOver(monthlyAdditionalRevenue, 1, month)]],
              0, st.projectLength)

\* The returned number as whole + num/den; -1 is whole = -1, num = 0.
calculateBreakEvenMonthOfChart(chartData) ==
  LET last == Cardinality(DOMAIN chartData) - 1
      crossing ==
        {i \in 1..last :
           /\ chartData[i - 1].cumulativeAdditionalRevenue < chartData[i - 1].cumulativeCost
           /\ chartData[i].cumulativeAdditionalRevenue >= chartData[i].cumulativeCost}
  IN  IF crossing = {} THEN [whole |-> 0 - 1, num |-> 0, den |-> 1]
      ELSE LET i == CHOOSE m \in crossing : \A n \in crossing : m <= n
               prevMonth == chartData[i - 1]
               currentMonth == chartData[i]
               revDiff == currentMonth.cumulativeAdditionalRevenue
                            - prevMonth.cumulativeAdditionalRevenue
               surplus == prevMonth.cumulativeCost - prevMonth.cumulativeAdditionalRevenue
           IN  [whole |-> i - 1, num |-> surplus, den |-> revDiff]

\* calculatorState of the visualization test page
ChartInputs ==
  [currentTraffic : {Visitors(1000)},
   targetTraffic : {Visitors(2000), Visitors(5000), Visitors(10000)},
   conversionRate : {RateUnit, 2 * RateUnit},
   averageOrderValue : {50, 100},
   monthlyCost : {500, 1000, 3000},
   projectLength : {1, 2, 6, 12}]

InitChart ==
  /\ state \in ChartInputs
  /\ errors = NoErrors
  /\ results = null
  /\ call = NoCall
  /\ nUpdates = 0
  /\ isCalculating = FALSE
  /\ timer = null
  /\ calculatorMode = "basic"
  /\ lastReset = null

\* a render of the page: chartData = generateChartData(calculatorState),
\* breakEvenMonth = calculateBreakEvenMonth(chartData)
visualize ==
  /\ call.op = "none"
  /\ \E chartData \in {generateChartData(state)} :
        call' = [op |-> "calculateBreakEvenMonth", input |-> state,
                 errorsBefore |-> errors, result |-> null, errors |-> errors,
                 projection |-> NoProjection, chartData |-> chartData,
                 breakEvenMonth |-> calculateBreakEvenMonthOfChart(chartData)]
  /\ UNCHANGED <<state, errors, results, nUpdates, isCalculating, timer, calculatorMode, lastReset>>

NextChart == visualize

SpecChart == InitChart /\ [][NextChart]_vars

(***************************************************************************)
(* validateCalculatorInputs on its own: one input, one validation          *)
(***************************************************************************)
\* percentages the advanced form can hold in an investment field
Percentages == {0 - 10, 0, 30, 40, 50, 100}

ValidatorInputs ==
  {[initialState EXCEPT !.contentInvestment = c, !.linkBuildingInvestment = l,
                        !.technicalSEOInvestment = t, !.targetTraffic = target] :
     c \in Percentages, l \in Percentages, t \in Percentages,
     target \in {Visitors(1000), Visitors(2000)}}

InitValidator ==
  /\ state \in ValidatorInputs
  /\ errors = NoErrors
  /\ results = null
  /\ call = NoCall
  /\ nUpdates = 0
  /\ isCalculating = FALSE
  /\ timer = null
  /\ calculatorMode = "basic"
  /\ lastReset = null

\* a call validateCalculatorInputs(state): setErrors(newErrors) and the
\* returned Object.keys(newErrors).length === 0
validateInputs ==
  /\ call.op = "none"
  /\ \E newErrors \in {validateCalculatorInputs(state)} :
        /\ errors' = newErrors
        /\ call' = [op |-> "validateCalculatorInputs", input |-> state,
                    errorsBefore |-> errors, result |-> null, errors |-> newErrors,
                    projection |-> NoProjection, valid |-> (DOMAIN newErrors = {})]
  /\ UNCHANGED <<state, results, nUpdates, isCalculating, timer, calculatorMode, lastReset>>

NextValidator == validateInputs

SpecValidator == InitValidator /\ [][NextValidator]_vars

(***************************************************************************)
(* The calculation engine on its own: one input, one computation           *)
(***************************************************************************)
\* <<currentTraffic, targetTraffic>>
TrafficPairs ==
  {<<Visitors(200), Visitors(400)>>, <<Visitors(400), Visitors(1500)>>,
   <<Visitors(500), Visitors(1500)>>, <<Visitors(800), Visitors(1800)>>,
   <<Visitors(1000), Visitors(2000)>>, <<Visitors(1000), Visitors(1001)>>,
   <<Visitors(5000), Visitors(10000)>>, <<Visitors(5000) + 1, Visitors(6000)>>,
   <<1, Visitors(400)>>}

\* <<conversionRate, averageOrderValue, monthlySEOCost>>
Economics ==
  {<<(3 * RateUnit) \div 2, 80, 1000>>, <<4 * RateUnit, 50, 2000>>,
   <<RateUnit \div 2, 20, 1000>>, <<2 * RateUnit, 100, 1000>>,
   <<5 * RateUnit, 50, 1000>>}

Timeframes == {1, 2, 12, 60}

\* testCases: "Low traffic site (500 visitors)"
lowTrafficSite ==
  [initialState EXCEPT !.currentTraffic = Visitors(500), !.targetTraffic = Visitors(1500),
                        !.conversionRate = (3 * RateUnit) \div 2,
                        !.averageOrderValue = 80, !.monthlySEOCost = 1000, !.timeframe = 12]

\* testCases: "Mid-size site with high conversion"
midSizeSite ==
  [initialState EXCEPT !.currentTraffic = Visitors(5000), !.targetTraffic = Visitors(10000),
                        !.conversionRate = 4 * RateUnit,
                        !.averageOrderValue = 50, !.monthlySEOCost = 2000, !.timeframe = 12]

EngineInputs ==
  {[initialState EXCEPT !.currentTraffic = t[1], !.targetTraffic = t[2],
                        !.conversionRate = e[1], !.averageOrderValue = e[2],
                        !.monthlySEOCost = e[3], !.timeframe = n,
                        !.competitionLevel = c] :
     t \in TrafficPairs, e \in Economics, n \in Timeframes, c \in {"low", "medium", "high"}}

InitEngine ==
  /\ state \in EngineInputs
  /\ errors = NoErrors
  /\ results = null
  /\ call = NoCall
  /\ nUpdates = 0
  /\ isCalculating = FALSE
  /\ timer = null
  /\ calculatorMode = "basic"
  /\ lastReset = null

\* a direct call of generateTrafficProjection exported by src/src/utils/calculations.ts
projectTraffic ==
  /\ call.op = "none"
  /\ call' = [call EXCEPT !.op = "generateTrafficProjection", !.input = state,
                          !.projection = normalizedProjection(state)]
  /\ UNCHANGED <<state, errors, results, nUpdates, isCalculating, timer, calculatorMode, lastReset>>

NextEngine ==
  \/ handleCalculate
  \/ projectTraffic

SpecEngine == InitEngine /\ [][NextEngine]_vars

(***************************************************************************)
(* The growth rate of generateTrafficProjection on its own: one input, one *)
(* evaluation of the table and the competition adjustment                  *)
(***************************************************************************)
\* currentTraffic values on both sides of every step of the table
GrowthTraffics ==
  UNION {{Visitors(b) - 1, Visitors(b), Visitors(b) + 1} :
           b \in {300, 500, 1000, 5000, 50000, 200000}}
    \cup {1, Visitors(100), Visitors(2000), Visitors(1000000)}

GrowthInputs ==
  {[initialState EXCEPT !.currentTraffic = t, !.targetTraffic = 2 * t,
                        !.competitionLevel = c] :
     t \in GrowthTraffics, c \in {"low", "medium", "high"}}

InitGrowth ==
  /\ state \in GrowthInputs
  /\ errors = NoErrors
  /\ results = null
  /\ call = NoCall
  /\ nUpdates = 0
  /\ isCalculating = FALSE
  /\ timer = null
  /\ calculatorMode = "basic"
  /\ lastReset = null

\* const growthRate = domainAuthorityFactor, as generateTrafficProjection
\* computes it for the state it is given
setGrowthRate ==
  /\ call.op = "none"
  /\ call' = [op |-> "growthRate", input |-> state, errorsBefore |-> errors,
              result |-> null, errors |-> errors, projection |-> NoProjection,
              growthRate |-> domainAuthorityFactor(state)]
  /\ UNCHANGED <<state, errors, results, nUpdates, isCalculating, timer, calculatorMode, lastReset>>

NextGrowth == setGrowthRate

SpecGrowth == InitGrowth /\ [][NextGrowth]_vars

(***************************************************************************)
(* Properties                                                              *)
(***************************************************************************)
calculated == call.op = "calculateResults"
succeeded  == calculated /\ isResult(call.result)
projected  == call.projection # NoProjection

chartCost    == call.result.roiComparisonChart.cumulativeCost
chartRevenue == call.result.roiComparisonChart.cumulativeRevenueIncrease

\* C1: for every valid input the returned traffic series starts at
\* currentTraffic and ends at targetTraffic exactly.
C1_BoundaryFidelity ==
  projected =>
    /\ call.projection[0] = call.input.currentTraffic
    /\ call.projection[call.input.timeframe] = call.input.targetTraffic

\* floor and ceil of a month given in tenths
floorMonth(tenths) == tenths \div 10
ceilMonth(tenths) == (tenths + 9) \div 10

\* C2: the returned break-even month b (always a finite number here) has
\* revenue below cost at month floor(b) when floor(b) >= 1, and revenue at
\* least cost at month ceil(b).
C2_BreakEvenConsistency ==
  succeeded =>
    LET b == call.result.breakEvenMonth
    IN  /\ floorMonth(b) >= 1 =>
             Less(chartRevenue[floorMonth(b)], chartCost[floorMonth(b)])
        /\ Geq(chartRevenue[ceilMonth(b)], chartCost[ceilMonth(b)])

neverBreaksEven ==
  \A i \in 1..call.input.timeframe : Less(chartRevenue[i], chartCost[i])

\* C3: when revenue stays below cost in every month 1..N, the returned value
\* is none of the values returned when break-even is reached (months 1 to N,
\* N included).
C3_NotReachedSentinel ==
  (succeeded /\ neverBreaksEven) =>
    ~(call.result.breakEvenMonth >= 10
        /\ call.result.breakEvenMonth <= 10 * call.input.timeframe)

reachesBreakEven ==
  \E i \in 1..call.input.timeframe : Geq(chartRevenue[i], chartCost[i])

\* the first month whose cumulative revenue increase reaches cumulative cost
crossoverMonth ==
  CHOOSE i \in 1..call.input.timeframe :
    /\ Geq(chartRevenue[i], chartCost[i])
    /\ \A j \in 1..(i - 1) : ~Geq(chartRevenue[j], chartCost[j])

sameFraction(n1, d1, n2, d2) ==
  /\ n1 \div GCD(n1, d1) = n2 \div GCD(n2, d2)
  /\ d1 \div GCD(n1, d1) = d2 \div GCD(n2, d2)

\* C4: with crossover month i > 1 the unrounded break-even month is
\* (i-1) + deficit/(deficit+surplus), deficit = cost[i-1] - revenue[i-1],
\* surplus = revenue[i] - cost[i].
C4_Interpolation ==
  (succeeded /\ reachesBreakEven /\ crossoverMonth > 1
     /\ isFinite(chartRevenue[crossoverMonth])) =>
    LET i == crossoverMonth
        deficit == chartCost[i - 1] - chartRevenue[i - 1]
        surplus == chartRevenue[i] - chartCost[i]
        scan == call.result.scan
    IN  /\ scan.whole = i - 1
        /\ sameFraction(scan.num, scan.den, deficit, deficit + surplus)

\* C5: an input that violates a rule of validateCalculatorInputs gets no
\* result and no traffic projection from calculateResults.
C5_ValidatorGates ==
  (calculated /\ validateCalculatorInputs(call.input) # NoErrors) =>
    (call.result = null /\ call.projection = NoProjection)

\* C6: the projected traffic series never decreases from one month to the next.
C6_MonotoneTraffic ==
  projected =>
    \A i \in 0..(call.input.timeframe - 1) :
      Geq(call.projection[i + 1], call.projection[i])

\* C7: the reported ROI is (cumulativeRevenueIncrease[N] - totalCost) /
\* totalCost * 100, with the chart's cumulative revenue increase of month N.
C7_RoiFromCumulative ==
  (succeeded /\ isFinite(chartRevenue[call.input.timeframe])) =>
    LET totalCost == (call.result.totalSEOCost \div 100) * MoneyUnit
    IN  call.result.roi =
          RoundDecimals(chartRevenue[call.input.timeframe] - totalCost, totalCost, 4)

\* C8: Calculate on an input whose only fault is targetTraffic <=
\* currentTraffic reports an error under the key targetTraffic, returns no
\* result and computes no projection.
C8_TargetNotAboveCurrent ==
  (calculated /\ call.input.targetTraffic <= call.input.currentTraffic
     /\ DOMAIN validateCalculatorInputs(call.input) \subseteq {"targetTraffic"}) =>
    /\ "targetTraffic" \in DOMAIN call.errors
    /\ call.result = null
    /\ call.projection = NoProjection

\* C9: what a Calculate returns and the errors it leaves are those of a
\* Calculate on the same input in a freshly constructed hook, whatever
\* updates, failures, errors and displayed results came before.
C9_Purity ==
  calculated =>
    LET fresh == calculateResults(call.input, NoErrors)
    IN  call.result = fresh.result /\ call.errors = fresh.errors

\* a Calculate that succeeded although the previous one had left errors
C9_Witness ==
  succeeded /\ call.errorsBefore # NoErrors /\ call.input # initialState

\* C10: cumulative cost of month i is monthlySEOCost * i, in the chart's
\* series and in the running cost of the break-even loop.
C10_MonotoneCost ==
  succeeded =>
    /\ \A i \in 1..call.input.timeframe : chartCost[i] = monthlyCost(call.input) * i
    /\ \A i \in 1..Len(call.result.scan.costs) :
         call.result.scan.costs[i] = monthlyCost(call.input) * i

\* a result whose break-even loop ran for several months
C10_Witness ==
  succeeded /\ Len(call.result.scan.costs) >= 3 /\ call.result.scan.breakEvenFound

\* the keys of the input fields
FieldKeys == DOMAIN initialState

\* the summary figures of an input, computed from the input alone: revenue in
\* cents, cost in cents, roi in hundredths of a percent (cost # 0)
figures(st) ==
  LET initialRevenue ==
        MathRound(st.currentTraffic * st.conversionRate, TrafficUnit * RateUnit)
          * st.averageOrderValue
      projectedRevenue ==
        MathRound(st.targetTraffic * st.conversionRate, TrafficUnit * RateUnit)
          * st.averageOrderValue
      totalSEOCost == st.monthlySEOCost * st.timeframe * 100
  IN  [initialRevenue |-> initialRevenue,
       projectedRevenue |-> projectedRevenue,
       totalSEOCost |-> totalSEOCost,
       roi |-> IF totalSEOCost = 0 THEN NaN
               ELSE RoundDecimals((projectedRevenue - initialRevenue) * st.timeframe
                                    - totalSEOCost, totalSEOCost, 4)]

\* the computation of the latest call got as far as the try block
computing == calculated /\ projected

zeroCost == figures(call.input).totalSEOCost = 0
roiCheckFails == ~zeroCost /\ figures(call.input).roi > 10000 * 100
growthCheckFails ==
  /\ figures(call.input).initialRevenue > 0
  /\ figures(call.input).projectedRevenue > 100 * figures(call.input).initialRevenue
finalMonthMismatch == call.projection[call.input.timeframe] # call.input.targetTraffic

\* C11: a computation that hits zero total SEO cost, a failed ROI or growth
\* sanity check or a final month different from the target returns no result
\* and leaves exactly one message, under calculationError, which is no field key.
C11_FailureContained ==
  (computing /\ (zeroCost \/ roiCheckFails \/ growthCheckFails \/ finalMonthMismatch)) =>
    /\ call.result = null
    /\ DOMAIN call.errors = {"calculationError"}
    /\ "calculationError" \notin FieldKeys

\* a Calculate with zero monthly cost after an earlier field error: it ends
\* with the single zero-cost message
C11_Witness ==
  /\ computing /\ zeroCost /\ call.errorsBefore # NoErrors
  /\ call.result = null
  /\ call.errors = "calculationError"
        :> "Calculation failed: Cannot calculate ROI with zero SEO cost"

\* a Calculate stopped by the revenue-growth sanity check
C11_GrowthStopped == computing /\ growthCheckFails /\ ~roiCheckFails /\ call.result = null

\* projectedRevenue / initialRevenue > 100 as a quotient of numbers: for
\* initialRevenue = 0 the quotient is Infinity (projectedRevenue > 0),
\* -Infinity or NaN
growthAbove100(projectedRevenue, initialRevenue) ==
  IF initialRevenue > 0 THEN projectedRevenue > 100 * initialRevenue
  ELSE IF initialRevenue = 0 THEN projectedRevenue > 0
  ELSE projectedRevenue < 100 * initialRevenue

\* C12: no result has roi > 10000 or projectedRevenue / initialRevenue > 100,
\* and a computation whose figures exceed one of the two ends without a
\* result and with a calculation error.
C12_SanityCeiling ==
  /\ succeeded =>
        /\ call.result.roi <= 10000 * 100
        /\ ~growthAbove100(call.result.projectedRevenue, call.result.initialRevenue)
  /\ (computing /\ ~zeroCost
        /\ (figures(call.input).roi > 10000 * 100
              \/ growthAbove100(figures(call.input).projectedRevenue,
                                figures(call.input).initialRevenue))) =>
        (call.result = null /\ "calculationError" \in DOMAIN call.errors)

\* C13: for every result the engine's break-even month is within half a
\* month of the crossover point interpolated from the chart's cumulative cost
\* and cumulative revenue-increase series.
C13_ChartAgreement ==
  succeeded =>
    verifyBreakEvenConsistency(call.input, call.result.breakEvenMonth,
                               call.result.roiComparisonChart)

\* the latest Calculate failed with a message under a field key, and neither
\* a Reset nor another Calculate has happened since
fieldErrorStands ==
  /\ calculated /\ call.result = null
  /\ DOMAIN call.errors \cap FieldKeys # {}
  /\ errors = call.errors

\* a Calculate on the input as it is now would return a result
inputComputes == calculateResults(state, NoErrors).result # null

\* C14: after a Calculate that failed with a validation error and updates
\* that made the input valid, with no Reset in between, Calculate can be
\* clicked (and then yields a result).
C14_Recoverable ==
  (fieldErrorStands /\ ~isCalculating /\ inputComputes) => ~calculateDisabled

\* C15: for the low-traffic fixture (500 to 1500 visitors, 1.5 %, $80,
\* $1000 a month, 12 months, medium competition) cumulative revenue increase
\* is below cumulative cost at month 11 and reaches it at month 12, and the
\* computed break-even month lies in [11, 12].
C15_LowTrafficFixture ==
  (calculated /\ call.input = lowTrafficSite) =>
    /\ succeeded
    /\ Less(chartRevenue[11], chartCost[11])
    /\ Geq(chartRevenue[12], chartCost[12])
    /\ call.result.breakEvenMonth >= 110
    /\ call.result.breakEvenMonth <= 120

\* C16: for the mid-size fixture (5000 to 10000 visitors, 4 %, $50, $2000 a
\* month, 12 months, medium competition) the computed break-even month lies
\* in [4, 6].
C16_MidSizeFixture ==
  (calculated /\ call.input = midSizeSite) =>
    /\ succeeded
    /\ call.result.breakEvenMonth >= 40
    /\ call.result.breakEvenMonth <= 60

\* the mid-size fixture calculated, with revenue reaching cost in the loop
C16_Witness ==
  /\ succeeded /\ call.input = midSizeSite
  /\ call.result.scan.breakEvenFound
  /\ crossoverMonth = 6

validated == call.op = "validateCalculatorInputs"

investmentTotal ==
  call.input.contentInvestment + call.input.linkBuildingInvestment
    + call.input.technicalSEOInvestment

InvestmentKeys == {"contentInvestment", "linkBuildingInvestment", "technicalSEOInvestment"}

\* C17: when the three investment percentages do not sum to 100, each of the
\* three fields carries an error in the resulting mapping and validation
\* returns false.
C17_InvestmentTotal ==
  (validated /\ investmentTotal # 100) =>
    /\ InvestmentKeys \subseteq DOMAIN call.errors
    /\ call.valid = FALSE

\* a validation of percentages summing to 120 with no other fault: exactly
\* the three fields carry the message about the total
C17_Witness ==
  /\ validated /\ investmentTotal = 120
  /\ DOMAIN call.errors = InvestmentKeys
  /\ \A k \in InvestmentKeys :
        call.errors[k] = "Investment allocations total 120%, but must equal 100%"
  /\ errors = call.errors

\* a validation where one percentage is negative: that field carries the
\* message about the sign, the other two the message about the total
C17_NegativeAndTotal ==
  /\ validated /\ investmentTotal # 100
  /\ call.errors["contentInvestment"] = "Content investment cannot be negative"
  /\ call.errors["linkBuildingInvestment"]
       = "Investment allocations total 70%, but must equal 100%"

recommended == call.op = "generateRecommendations"

\* how many of the returned blocks carry the title
blocksTitled(title) ==
  Cardinality({i \in DOMAIN call.recommendations : call.recommendations[i] = title})

speedUpBlocks == blocksTitled("Your break-even point is longer than 12 months.")
typicalBlocks == blocksTitled("Your break-even point is between 6-12 months,")
excellentBlocks == blocksTitled("Your break-even point is less than 6 months,")

\* C18: a break-even block is returned only for a finite break-even point,
\* and then exactly one: the speed-up block above 12 months, the typical
\* block from 6 through 12 months, the excellent block strictly below 6.
C18_BreakEvenBlock ==
  recommended =>
    LET b == call.input.breakEvenPoint
    IN  IF isFinite(b)
          THEN /\ speedUpBlocks = (IF b > 120 THEN 1 ELSE 0)
               /\ typicalBlocks = (IF b >= 60 /\ b <= 120 THEN 1 ELSE 0)
               /\ excellentBlocks = (IF b < 60 THEN 1 ELSE 0)
          ELSE speedUpBlocks + typicalBlocks + excellentBlocks = 0

negativeBlocks == blocksTitled("Your current SEO ROI is negative.")
improvableBlocks == blocksTitled("Your SEO ROI is positive but could be improved.")
strongBlocks == blocksTitled("Your SEO ROI is strong!")

\* C19: exactly one ROI block is returned: the negative block iff roi < 0,
\* the improvable block iff 0 <= roi < 50, the strong block iff roi >= 50.
C19_RoiBlock ==
  recommended =>
    LET roi == call.input.monthlyROI
    IN  /\ negativeBlocks = (IF roi < 0 THEN 1 ELSE 0)
        /\ improvableBlocks = (IF roi >= 0 /\ roi < 500 THEN 1 ELSE 0)
        /\ strongBlocks = (IF roi >= 500 THEN 1 ELSE 0)

\* a call with an ROI of exactly 50 %: the strong block, first in the list
C19_Witness ==
  /\ recommended /\ call.input.monthlyROI = 500
  /\ call.recommendations[1] = "Your SEO ROI is strong!"
  /\ negativeBlocks + improvableBlocks = 0

visualized == call.op = "calculateBreakEvenMonth"

\* month m of the chart data has cumulative additional revenue >= cumulative cost
chartCovers(m) ==
  call.chartData[m].cumulativeAdditionalRevenue >= call.chartData[m].cumulativeCost

notReachedValue == [whole |-> 0 - 1, num |-> 0, den |-> 1]

\* C20: the chart-based calculateBreakEvenMonth returns -1 exactly when no
\* month 1..N of the chart data has cumulative additional revenue >=
\* cumulative cost, and returns 1 when month 1 already has.
C20_ChartNotReached ==
  visualized =>
    /\ (call.breakEvenMonth = notReachedValue)
          <=> ~(\E m \in 1..call.input.projectLength : chartCovers(m))
    /\ chartCovers(1) =>
          (call.breakEvenMonth.whole * call.breakEvenMonth.den + call.breakEvenMonth.num
             = call.breakEvenMonth.den)

\* C21: every element of the traffic series the hook projects for a valid
\* input is a finite whole number of visitors, at least currentTraffic (so
\* the correction of the raw series never yields an undefined value, also
\* when the raw final month equals currentTraffic).
C21_WellDefinedTraffic ==
  computing =>
    \A i \in 0..call.input.timeframe :
      /\ isFinite(call.projection[i])
      /\ call.projection[i] % TrafficUnit = 0
      /\ call.projection[i] >= call.input.currentTraffic

rated == call.op = "growthRate"

\* the step table of the growth-rate constant, in thousandths, for a traffic
\* value counted in 1/TrafficUnit visitors
tableOf(traffic) ==
  CASE traffic < 300 * TrafficUnit -> 70
    [] traffic >= 300 * TrafficUnit /\ traffic < 500 * TrafficUnit -> 90
    [] traffic >= 500 * TrafficUnit /\ traffic < 1000 * TrafficUnit -> 120
    [] traffic >= 1000 * TrafficUnit /\ traffic < 5000 * TrafficUnit -> 200
    [] traffic >= 5000 * TrafficUnit /\ traffic < 50000 * TrafficUnit -> 350
    [] traffic >= 50000 * TrafficUnit /\ traffic < 200000 * TrafficUnit -> 450
    [] traffic >= 200000 * TrafficUnit -> 550

\* ten times the multiplier of a competition level
tenfoldMultiplier(level) ==
  CASE level = "high" -> 8 [] level = "low" -> 12 [] level = "medium" -> 10

\* C22: the growth rate the projection uses is table(currentTraffic) times
\* the multiplier of the competition level (0.8 high, 1.2 low, 1 medium), and
\* for a fixed competition level no smaller currentTraffic has a larger rate.
C22_GrowthRate ==
  rated =>
    /\ 10 * call.growthRate
         = tableOf(call.input.currentTraffic) * tenfoldMultiplier(call.input.competitionLevel)
    /\ \A t \in GrowthTraffics :
         t <= call.input.currentTraffic =>
           domainAuthorityFactor([call.input EXCEPT !.currentTraffic = t]) <= call.growthRate

\* the rate of exactly 300 visitors under high competition: 0.09 * 0.8
C22_Witness ==
  /\ rated /\ call.input.currentTraffic = Visitors(300)
  /\ call.input.competitionLevel = "high"
  /\ call.growthRate = 72

\* every month of the projected series is a number
projectionFinite ==
  \A i \in 0..call.input.timeframe : isFinite(call.projection[i])

\* the sum over months 1..N of (traffic[i] - currentTraffic) * conversionRate
\* / 100 * averageOrderValue, in 1/MoneyUnit dollars
additionalRevenueTotal ==
  SumOver([i \in 1..call.input.timeframe |->
             (call.projection[i] - call.input.currentTraffic)
               * call.input.conversionRate * call.input.averageOrderValue],
          1, call.input.timeframe)

\* one cent, in 1/MoneyUnit dollars
Cent == TrafficUnit * RateUnit

distance(a, b) == IF a >= b THEN a - b ELSE b - a

\* C23: the reported averageMonthlyIncrease is the mean over months 1..N of
\* the month's additional revenue, up to cent rounding: one cent for each
\* month's accumulation step and one for the division, so N + 1 cents on the
\* total of the N months.
C23_AverageMonthlyIncrease ==
  (succeeded /\ projectionFinite) =>
    distance(call.result.averageMonthlyIncrease * call.input.timeframe * Cent,
             additionalRevenueTotal)
      <= (call.input.timeframe + 1) * Cent

\* the latest handler that ran was a click on Reset
justReset == lastReset # null /\ lastReset.latest

\* C24: right after a Reset every input field has its initial default, the
\* error mapping is empty, no results are displayed and the calculator mode
\* is the one selected before the click.
C24_ResetRestoresDefaults ==
  justReset =>
    /\ state = initialState
    /\ errors = NoErrors
    /\ results = null
    /\ calculatorMode = lastReset.calculatorMode

\* a Reset in advanced mode after an input was changed and a result of the
\* changed input had been displayed
C24_Witness ==
  /\ justReset /\ calculatorMode = "advanced"
  /\ nUpdates >= 1 /\ succeeded /\ call.input # initialState
  /\ state = initialState /\ results = null

\* C25: a result with roi >= 0 has a cumulative revenue increase at the final
\* month of at least the total SEO cost, so its cumulative revenue series
\* does not stay below cumulative cost in every month.
C25_RoiAgreesWithBreakEven ==
  (succeeded /\ call.result.roi >= 0) =>
    /\ Geq(chartRevenue[call.input.timeframe], chartCost[call.input.timeframe])
    /\ ~neverBreaksEven

C27_ErrorsIffNoResult ==
  calculated => ((call.errors = NoErrors) <=> (call.result # null))

\* a Calculate that returned a result and left no error although the
\* previous attempt had left a message under targetTraffic
C27_Witness ==
  /\ succeeded /\ "targetTraffic" \in DOMAIN call.errorsBefore
  /\ call.errors = NoErrors /\ errors = NoErrors

\* a Calculate that failed although the mapping was empty before it
C27_FailureRecorded ==
  /\ calculated /\ call.result = null /\ call.errorsBefore = NoErrors
  /\ Cardinality(DOMAIN call.errors) = 1 /\ errors = call.errors

\* the timeframe of the input a result was computed from: its series run
\* over months 0..timeframe
timeframeOf(result) == Cardinality(DOMAIN result.trafficGrowthChart.projected) - 1

\* C28: the timeframe shown with the displayed results is the timeframe of
\* the input those results were computed from.
C28_TimeframeOfResults ==
  resultsShown => timeframeShown = timeframeOf(results)

\* C29: the overview says break-even is reached exactly when cumulative
\* revenue increase reaches cumulative cost at some month 1..timeframe, the
\* last month included; otherwise it says the investment may take longer.
C29_BreakEvenText ==
  succeeded =>
    /\ (call.result.breakEvenText = "reach") <=> reachesBreakEven
    /\ (call.result.breakEvenText = "longer") <=> ~reachesBreakEven

\* C30: after a Reset the results stay absent until a calculation started
\* after that Reset is shown; no calculation started before the Reset
\* publishes its result after it.
C30_NoResultsAfterReset ==
  lastReset # null => results = null

\* a Reset that removed displayed results, followed by a new Calculate whose
\* result is still waiting for the delay to pass
C30_Witness ==
  /\ lastReset # null /\ lastReset.started
  /\ isCalculating /\ timer # null
  /\ results = null /\ nUpdates >= 1

====
